---- MODULE Spec2Model ----
(***************************************************************************)
(* Model of the two Advent of Code 2022 solvers day01.py and day04.py.     *)
(* Text is a sequence of one-character strings.  A Python call either      *)
(* returns a value, Ok(v), or raises, which is modelled as the result      *)
(* ValueError (every failure these programs can raise on their inputs is   *)
(* a ValueError).                                                          *)
(***************************************************************************)
EXTENDS Integers, Sequences, FiniteSets, TLC

VARIABLES prog, stdin, pc, parsed, stdout, call, ret

vars == <<prog, stdin, pc, parsed, stdout, call, ret>>

(***************************** Python built-ins ****************************)

Ok(v) == [ok |-> TRUE, val |-> v]

ValueError == [ok |-> FALSE, err |-> "ValueError"]

\* The characters str.strip() and int() treat as whitespace.
Whitespace == {" ", "\n"}

DigitChars == <<"0", "1", "2", "3", "4", "5", "6", "7", "8", "9">>

IsDigit(c) == \E i \in 1..Len(DigitChars) : DigitChars[i] = c

DigitVal(c) == (CHOOSE i \in 1..Len(DigitChars) : DigitChars[i] = c) - 1

\* s[from:] of Python, 1-based
Drop(s, n) == SubSeq(s, n + 1, Len(s))

RECURSIVE lstrip(_)
lstrip(s) ==
    IF s # <<>> /\ Head(s) \in Whitespace THEN lstrip(Tail(s)) ELSE s

RECURSIVE rstrip(_)
rstrip(s) ==
    IF s # <<>> /\ s[Len(s)] \in Whitespace
    THEN rstrip(SubSeq(s, 1, Len(s) - 1))
    ELSE s

\* str.strip()
strip(s) == rstrip(lstrip(s))

\* str.find(sep): position of the first occurrence of sep in s, 0 if none
find(s, sep) ==
    LET hits == {i \in 1..(Len(s) - Len(sep) + 1) :
                    SubSeq(s, i, i + Len(sep) - 1) = sep}
    IN IF hits = {} THEN 0 ELSE CHOOSE i \in hits : \A j \in hits : i <= j

\* str.split(sep): left to right, non-overlapping, never an empty list
RECURSIVE split(_, _)
split(s, sep) ==
    LET i == find(s, sep)
    IN IF i = 0 THEN <<s>>
       ELSE <<SubSeq(s, 1, i - 1)>> \o split(Drop(s, i + Len(sep) - 1), sep)

\* iteration over a text file: the lines, each with its terminating newline
RECURSIVE readlines(_)
readlines(s) ==
    LET i == find(s, <<"\n">>)
    IN IF s = <<>> THEN <<>>
       ELSE IF i = 0 THEN <<s>>
       ELSE <<SubSeq(s, 1, i)>> \o readlines(Drop(s, i))

\* the digit part of an integer literal: digits, single underscores between
ValidDigits(b) ==
    /\ b # <<>>
    /\ IsDigit(b[1])
    /\ IsDigit(b[Len(b)])
    /\ \A i \in 1..Len(b) : IsDigit(b[i]) \/ b[i] = "_"
    /\ \A i \in 1..(Len(b) - 1) : ~(b[i] = "_" /\ b[i + 1] = "_")

RECURSIVE DigitsVal(_)
DigitsVal(b) ==
    IF b = <<>> THEN 0
    ELSE LET c == b[Len(b)]
             front == SubSeq(b, 1, Len(b) - 1)
         IN IF c = "_" THEN DigitsVal(front)
            ELSE 10 * DigitsVal(front) + DigitVal(c)

\* int(s) for a str s, base 10
int(s) ==
    LET t == strip(s)
        signed == t # <<>> /\ t[1] \in {"+", "-"}
        body == IF signed THEN Tail(t) ELSE t
    IN IF ~ValidDigits(body) THEN ValueError
       ELSE IF signed /\ t[1] = "-" THEN Ok(0 - DigitsVal(body))
       ELSE Ok(DigitsVal(body))

RECURSIVE digits(_)
digits(n) ==
    IF n < 10 THEN <<DigitChars[n + 1]>>
    ELSE digits(n \div 10) \o <<DigitChars[(n % 10) + 1]>>

\* str(n) for an int n
str(n) == IF n < 0 THEN <<"-">> \o digits(0 - n) ELSE digits(n)

\* sum(xs), left to right from 0
RECURSIVE sum(_)
sum(xs) == IF xs = <<>> THEN 0 ELSE sum(SubSeq(xs, 1, Len(xs) - 1)) + xs[Len(xs)]

\* max(xs): raises on the empty sequence
RECURSIVE maxOf(_)
maxOf(xs) ==
    IF Len(xs) = 1 THEN xs[1]
    ELSE LET m == maxOf(SubSeq(xs, 1, Len(xs) - 1))
         IN IF xs[Len(xs)] > m THEN xs[Len(xs)] ELSE m

max(xs) == IF xs = <<>> THEN ValueError ELSE Ok(maxOf(xs))

\* insertion of x into a descending sequence
RECURSIVE insertDesc(_, _)
insertDesc(x, xs) ==
    IF xs = <<>> THEN <<x>>
    ELSE IF x >= Head(xs) THEN <<x>> \o xs
    ELSE <<Head(xs)>> \o insertDesc(x, Tail(xs))

\* sorted(xs): the reverse flag forgotten
RECURSIVE sortedReverse_ascending(_)
sortedReverse_ascending(xs) ==
    IF xs = <<>> THEN <<>>
    ELSE LET rest == sortedReverse_ascending(Tail(xs))
             x == Head(xs)
             k == Cardinality({i \in 1..Len(rest) : rest[i] < x})
         IN SubSeq(rest, 1, k) \o <<x>> \o SubSeq(rest, k + 1, Len(rest))

\* sorted(xs, reverse=True)
RECURSIVE sortedReverse(_)
sortedReverse(xs) ==
    IF xs = <<>> THEN <<>> ELSE insertDesc(Head(xs), sortedReverse(Tail(xs)))

\* xs[:n]
sliceTo(xs, n) == SubSeq(xs, 1, IF Len(xs) < n THEN Len(xs) ELSE n)

\* set(range(start, stop))
rangeSet(start, stop) == {i \in start..(stop - 1) : TRUE}

\* the results of elementwise calls: the first failure, or the list of values
AllOk(rs) == \A i \in 1..Len(rs) : rs[i].ok

Collect(rs) == IF AllOk(rs) THEN Ok([i \in 1..Len(rs) |-> rs[i].val]) ELSE ValueError

(********************************* day01.py ********************************)

\* number of inventories summed by sum_of_top_three_calories
TopN == 3

\* min in place of max
most_calories_smallest(inventories) ==
    LET sums == [i \in 1..Len(inventories) |-> sum(inventories[i])]
    IN IF sums = <<>> THEN ValueError
       ELSE Ok(CHOOSE m \in {sums[i] : i \in 1..Len(sums)} :
                  \A i \in 1..Len(sums) : m <= sums[i])

most_calories(inventories) ==
    max([i \in 1..Len(inventories) |-> sum(inventories[i])])

\* the three sums taken by index: fails when there are fewer than three
sum_of_top_three_calories_indexed(inventories) ==
    LET sums == sortedReverse([i \in 1..Len(inventories) |-> sum(inventories[i])])
    IN IF Len(sums) < TopN THEN ValueError
       ELSE Ok(sums[1] + sums[2] + sums[3])

sum_of_top_three_calories(inventories) ==
    LET sums == [i \in 1..Len(inventories) |-> sum(inventories[i])]
    IN Ok(sum(sliceTo(sortedReverse(sums), TopN)))

\* split() without a separator: a blank group has no lines at all
parse_inventory_lenient(inventory) ==
    LET lines == split(strip(inventory), <<"\n">>)
    IN IF strip(inventory) = <<>> THEN Ok(<<>>)
       ELSE Collect([i \in 1..Len(lines) |-> int(lines[i])])

parse_inventory(inventory) ==
    LET lines == split(strip(inventory), <<"\n">>)
    IN Collect([i \in 1..Len(lines) |-> int(lines[i])])

parse_inventories(text) ==
    LET groups == split(text, <<"\n", "\n">>)
    IN Collect([i \in 1..Len(groups) |-> parse_inventory(groups[i])])

(********************************* day04.py ********************************)

\* range(start, end): the end bound left out
_str_to_assignment_exclusive(s) ==
    LET parts == split(s, <<"-">>)
        start == int(parts[1])
        end == int(parts[2])
    IN IF Len(parts) # 2 THEN ValueError
       ELSE IF ~(start.ok /\ end.ok) THEN ValueError
       ELSE Ok(rangeSet(start.val, end.val))

\* an inverted range rejected
_str_to_assignment_validated(s) ==
    LET parts == split(s, <<"-">>)
        start == int(parts[1])
        end == int(parts[2])
    IN IF Len(parts) # 2 THEN ValueError
       ELSE IF ~(start.ok /\ end.ok) THEN ValueError
       ELSE IF start.val > end.val THEN ValueError
       ELSE Ok(rangeSet(start.val, end.val + 1))

\* start, end = map(int, s.split("-")): the third and later parts of a split make the
\* two-target unpacking raise, as does any part that is no integer literal
_str_to_assignment(s) ==
    LET parts == split(s, <<"-">>)
        start == int(parts[1])
        end == int(parts[2])
    IN IF Len(parts) # 2 THEN ValueError
       ELSE IF ~(start.ok /\ end.ok) THEN ValueError
       ELSE Ok(rangeSet(start.val, end.val + 1))

\* a, b = line.strip().split(","): no starred target
_str_to_assignments_list_strict(line) ==
    LET fields == split(strip(line), <<",">>)
        a == _str_to_assignment(fields[1])
        b == _str_to_assignment(fields[2])
    IN IF Len(fields) # 2 THEN ValueError
       ELSE IF ~(a.ok /\ b.ok) THEN ValueError
       ELSE Ok(<<a.val, b.val>>)

\* a, b, *_ = line.strip().split(",")
_str_to_assignments_list(line) ==
    LET fields == split(strip(line), <<",">>)
        a == _str_to_assignment(fields[1])
        b == _str_to_assignment(fields[2])
    IN IF Len(fields) < 2 THEN ValueError
       ELSE IF ~(a.ok /\ b.ok) THEN ValueError
       ELSE Ok(<<a.val, b.val>>)

parse_section_assignments(text) ==
    LET lines == readlines(text)
    IN Collect([i \in 1..Len(lines) |-> _str_to_assignments_list(lines[i])])

\* a < b, the proper subset, in place of a <= b
issubset_proper(a, b) == (\A x \in a : x \in b) /\ a # b

issubset(a, b) == \A x \in a : x \in b

isdisjoint(a, b) == ~(\E x \in a : x \in b)

\* only one direction tested
one_fully_contains_the_other_oneway(a, b) == issubset(a, b)

one_fully_contains_the_other(a, b) == issubset(a, b) \/ issubset(b, a)

\* the negation dropped
one_overlaps_the_other_negated(a, b) == isdisjoint(a, b)

one_overlaps_the_other(a, b) == ~isdisjoint(a, b)

count_fully_overlapping_assignments(assignments) ==
    sum([i \in 1..Len(assignments) |->
            IF one_fully_contains_the_other(assignments[i][1], assignments[i][2])
            THEN 1 ELSE 0])

count_overlapping_assignments(assignments) ==
    sum([i \in 1..Len(assignments) |->
            IF one_overlaps_the_other(assignments[i][1], assignments[i][2])
            THEN 1 ELSE 0])

(******************************* bounded inputs ****************************)

SeqsUpTo(S, n) == UNION {[1..k -> S] : k \in 0..n}

\* longest input text of day01
MaxText == 7

\* most inventories in a list handed to a day01 reducer
MaxInventories == 4

\* most lines in an input text of day04
MaxLines == 2

\* range bounds formatted into range strings run from -MaxNegative to MaxBound
MaxNegative == 1

MaxBound == 11

\* section sets handed to the day04 predicates are the subsets of 0..MaxSection
MaxSection == 3

\* most pairs in a list handed to a day04 reducer
MaxPairs == 2

Alphabet01 == {"1", "\n", " ", "x"}

Texts01 == SeqsUpTo(Alphabet01, MaxText)

InventoryPool == {<<>>, <<0>>, <<1>>, <<2>>, <<1, 1>>, <<3, 2>>, <<0 - 2>>}

InventoryLists == SeqsUpTo(InventoryPool, MaxInventories)

\* the text "s-e" of two integers
RangeStr(s, e) == str(s) \o <<"-">> \o str(e)

Bounds == (0 - MaxNegative)..MaxBound

RangeStrs == {RangeStr(s, e) : s \in Bounds, e \in Bounds}

Fields04 == {RangeStr(1, 2), RangeStr(2, 3), RangeStr(3, 3), RangeStr(3, 1)}

\* what may follow the second field of a line
ExtraFields == {<<>>, <<<<"x">>>>}

\* a line as its comma-separated fields: the empty line, a line of one
\* field, and lines of two fields and what follows them
Lines04 ==
    {<<<<>>>>, <<RangeStr(1, 2)>>}
        \cup {<<f, g>> \o t : f \in Fields04, g \in Fields04, t \in ExtraFields}

RECURSIVE join(_, _)
join(xs, sep) ==
    IF xs = <<>> THEN <<>>
    ELSE IF Len(xs) = 1 THEN xs[1]
    ELSE xs[1] \o sep \o join(Tail(xs), sep)

\* the text of the lines; the last line ends in a newline iff nl
RECURSIVE Render(_, _)
Render(lines, nl) ==
    IF lines = <<>> THEN <<>>
    ELSE join(Head(lines), <<",">>)
            \o (IF Len(lines) > 1 \/ nl THEN <<"\n">> ELSE <<>>)
            \o Render(Tail(lines), nl)

\* the last line of a file lacks its newline only when it has characters
Inputs04 ==
    {in \in [lines : SeqsUpTo(Lines04, MaxLines), nl : BOOLEAN] :
        in.nl \/ (in.lines # <<>> /\ in.lines[Len(in.lines)] # <<<<>>>>)}

Texts04 == {Render(in.lines, in.nl) : in \in Inputs04}

SectionSets == SUBSET (0..MaxSection)

RangePool == {{}, {1}, {1, 2}, {2, 3}, {3}}

PairLists == SeqsUpTo(RangePool \X RangePool, MaxPairs)

(************************ the two programs' main() *************************)

None == [ok |-> FALSE, err |-> "None"]

\* print(n): one more line on standard output
print(out, n) == Append(out, str(n))

Init ==
    /\ prog \in {"day01", "day04"}
    /\ stdin \in (IF prog = "day01" THEN Texts01 ELSE Texts04)
    /\ pc = "parse"
    /\ parsed = None
    /\ stdout = <<>>
    /\ call = None
    /\ ret = None

\* a raised exception leaves main: the run is over
Step(at, result, then) ==
    /\ pc = at
    /\ pc' = IF result.ok THEN then ELSE "failed"

day01_parse ==
    /\ prog = "day01"
    /\ Step("parse", parse_inventories(stdin), "first")
    /\ parsed' = parse_inventories(stdin)
    /\ UNCHANGED <<prog, stdin, stdout, call, ret>>

day01_first ==
    /\ prog = "day01"
    /\ Step("first", most_calories(parsed.val), "second")
    /\ stdout' = IF most_calories(parsed.val).ok
                 THEN print(stdout, most_calories(parsed.val).val)
                 ELSE stdout
    /\ UNCHANGED <<prog, stdin, parsed, call, ret>>

day01_second ==
    /\ prog = "day01"
    /\ Step("second", sum_of_top_three_calories(parsed.val), "done")
    /\ stdout' = IF sum_of_top_three_calories(parsed.val).ok
                 THEN print(stdout, sum_of_top_three_calories(parsed.val).val)
                 ELSE stdout
    /\ UNCHANGED <<prog, stdin, parsed, call, ret>>

day04_parse ==
    /\ prog = "day04"
    /\ Step("parse", parse_section_assignments(stdin), "first")
    /\ parsed' = parse_section_assignments(stdin)
    /\ UNCHANGED <<prog, stdin, stdout, call, ret>>

day04_first ==
    /\ prog = "day04"
    /\ pc = "first"
    /\ pc' = "second"
    /\ stdout' = print(stdout, count_fully_overlapping_assignments(parsed.val))
    /\ UNCHANGED <<prog, stdin, parsed, call, ret>>

day04_second ==
    /\ prog = "day04"
    /\ pc = "second"
    /\ pc' = "done"
    /\ stdout' = print(stdout, count_overlapping_assignments(parsed.val))
    /\ UNCHANGED <<prog, stdin, parsed, call, ret>>

Next ==
    \/ day01_parse
    \/ day01_first
    \/ day01_second
    \/ day04_parse
    \/ day04_first
    \/ day04_second

Spec == Init /\ [][Next]_vars

(**************** single calls of the functions of day01.py ****************)

Idle ==
    /\ prog = "none"
    /\ stdin = <<>>
    /\ parsed = None
    /\ stdout = <<>>
    /\ pc = "call"
    /\ ret = None

InitCalls01 ==
    /\ Idle
    /\ \/ \E v \in InventoryLists :
            call = [fn |-> "most_calories", args |-> <<v>>]
       \/ \E v \in InventoryLists :
            call = [fn |-> "sum_of_top_three_calories", args |-> <<v>>]
       \/ \E s \in Texts01 :
            call = [fn |-> "parse_inventories", args |-> <<s>>]

\* the call of fn is pending and now returns
Returns(fn) ==
    /\ pc = "call"
    /\ call.fn = fn
    /\ pc' = "return"
    /\ UNCHANGED <<prog, stdin, parsed, stdout, call>>

call_most_calories ==
    /\ Returns("most_calories")
    /\ ret' = most_calories(call.args[1])

call_sum_of_top_three_calories ==
    /\ Returns("sum_of_top_three_calories")
    /\ ret' = sum_of_top_three_calories(call.args[1])

call_parse_inventories ==
    /\ Returns("parse_inventories")
    /\ ret' = parse_inventories(call.args[1])

NextCalls01 ==
    \/ call_most_calories
    \/ call_sum_of_top_three_calories
    \/ call_parse_inventories

SpecCalls01 == InitCalls01 /\ [][NextCalls01]_vars

(**************** single calls of the functions of day04.py ****************)

InitCalls04 ==
    /\ Idle
    /\ \/ \E s \in RangeStrs :
            call = [fn |-> "_str_to_assignment", args |-> <<s>>]
       \/ \E in \in Inputs04 :
            call = [fn |-> "parse_section_assignments",
                    args |-> <<Render(in.lines, in.nl)>>,
                    lines |-> in.lines]
       \/ \E a \in SectionSets, b \in SectionSets :
            call = [fn |-> "one_fully_contains_the_other", args |-> <<a, b>>]
       \/ \E a \in SectionSets, b \in SectionSets :
            call = [fn |-> "one_overlaps_the_other", args |-> <<a, b>>]
       \/ \E v \in PairLists :
            call = [fn |-> "count_fully_overlapping_assignments", args |-> <<v>>]
       \/ \E v \in PairLists :
            call = [fn |-> "count_overlapping_assignments", args |-> <<v>>]

call_str_to_assignment ==
    /\ Returns("_str_to_assignment")
    /\ ret' = _str_to_assignment(call.args[1])

call_parse_section_assignments ==
    /\ Returns("parse_section_assignments")
    /\ ret' = parse_section_assignments(call.args[1])

call_one_fully_contains_the_other ==
    /\ Returns("one_fully_contains_the_other")
    /\ ret' = Ok(one_fully_contains_the_other(call.args[1], call.args[2]))

call_one_overlaps_the_other ==
    /\ Returns("one_overlaps_the_other")
    /\ ret' = Ok(one_overlaps_the_other(call.args[1], call.args[2]))

call_count_fully_overlapping_assignments ==
    /\ Returns("count_fully_overlapping_assignments")
    /\ ret' = Ok(count_fully_overlapping_assignments(call.args[1]))

call_count_overlapping_assignments ==
    /\ Returns("count_overlapping_assignments")
    /\ ret' = Ok(count_overlapping_assignments(call.args[1]))

NextCalls04 ==
    \/ call_str_to_assignment
    \/ call_parse_section_assignments
    \/ call_one_fully_contains_the_other
    \/ call_one_overlaps_the_other
    \/ call_count_fully_overlapping_assignments
    \/ call_count_overlapping_assignments

SpecCalls04 == InitCalls04 /\ [][NextCalls04]_vars

(********************************* claims **********************************)

\* the call of fn has returned (or raised): ret is its result
Returned(fn) == pc = "return" /\ call.fn = fn

SumsOf(inventories) == [i \in 1..Len(inventories) |-> sum(inventories[i])]

\* C1: for a non-empty list of inventories most_calories returns a value
\* that is the sum of one of the inventories and is at least the sum of
\* every inventory; for the empty list it raises instead of returning.
C1_MostCaloriesIsLargestSum ==
    Returned("most_calories") =>
        LET sums == SumsOf(call.args[1])
        IN IF sums = <<>> THEN ~ret.ok
           ELSE /\ ret.ok
                /\ \E i \in 1..Len(sums) : sums[i] = ret.val
                /\ \A i \in 1..Len(sums) : sums[i] <= ret.val

\* C1 witness: the largest sum is that of the middle one of three inventories
C1_Witness ==
    /\ Returned("most_calories")
    /\ ret.ok
    /\ Len(call.args[1]) = 3
    /\ sum(call.args[1][2]) = ret.val
    /\ sum(call.args[1][1]) < ret.val
    /\ sum(call.args[1][3]) < ret.val

\* C2: sum_of_top_three_calories never raises; with fewer than three
\* inventories it returns the sum of all the per-inventory sums (0 for the
\* empty list), and otherwise the sum of three of them, at three different
\* positions, that are each at least every sum left out.
C2_TopThreeSum ==
    Returned("sum_of_top_three_calories") =>
        LET sums == SumsOf(call.args[1])
            n == Len(sums)
        IN /\ ret.ok
           /\ n = 0 => ret.val = 0
           /\ n = 1 => ret.val = sums[1]
           /\ n = 2 => ret.val = sums[1] + sums[2]
           /\ n >= 3 =>
                \E i \in 1..n, j \in 1..n, k \in 1..n :
                    /\ i < j /\ j < k
                    /\ ret.val = sums[i] + sums[j] + sums[k]
                    /\ \A m \in (1..n) \ {i, j, k} :
                          sums[m] <= sums[i] /\ sums[m] <= sums[j] /\ sums[m] <= sums[k]

\* C2 witness: four inventories, two of the top three with equal sums, and
\* one inventory left out of the result
C2_Witness ==
    /\ Returned("sum_of_top_three_calories")
    /\ ret.ok
    /\ call.args[1] = <<<<1>>, <<3, 2>>, <<1, 1>>, <<2>>>>
    /\ ret.val = 9

\* C6: parse_inventories raises, returning nothing, whenever one of the
\* groups between two-newline separators is empty after trimming, and no
\* inventory of a returned list is empty.
C6_EmptyGroupFails ==
    Returned("parse_inventories") =>
        LET groups == split(call.args[1], <<"\n", "\n">>)
        IN /\ (\E i \in 1..Len(groups) : strip(groups[i]) = <<>>) => ~ret.ok
           /\ ret.ok => \A i \in 1..Len(ret.val) : ret.val[i] # <<>>

\* C6 witness: a text ending in a blank line followed by nothing has raised
C6_Witness ==
    /\ Returned("parse_inventories")
    /\ call.args[1] = <<"1", "\n", "1", "\n", "\n">>
    /\ ~ret.ok

MinOf(S) == CHOOSE x \in S : \A y \in S : x <= y

MaxOf(S) == CHOOSE x \in S : \A y \in S : y <= x

\* C3 as stated: for all integers s <= e the range string "s-e" parses to
\* the set of the integers from s to e, whose minimum is s and maximum e.
C3_AnyIntegerRoundTrip ==
    Returned("_str_to_assignment") =>
        \A s \in Bounds, e \in Bounds :
            (s <= e /\ call.args[1] = RangeStr(s, e)) =>
                /\ ret.ok
                /\ ret.val = s..e
                /\ MinOf(ret.val) = s
                /\ MaxOf(ret.val) = e

\* C3 amended: for all integers 0 <= s <= e the range string "s-e" parses
\* to the set of the integers from s to e, whose minimum is s and maximum
\* e.  (The minus sign of a negative bound is taken for the separator.)
C3_RoundTrip ==
    Returned("_str_to_assignment") =>
        \A s \in Bounds, e \in Bounds :
            (0 <= s /\ s <= e /\ call.args[1] = RangeStr(s, e)) =>
                /\ ret.ok
                /\ ret.val = s..e
                /\ MinOf(ret.val) = s
                /\ MaxOf(ret.val) = e

\* C3 witness: the string "9-11" has been parsed to a set of three sections
C3_Witness ==
    /\ Returned("_str_to_assignment")
    /\ call.args[1] = <<"9", "-", "1", "1">>
    /\ ret.ok
    /\ Cardinality(ret.val) = 3

\* a line, given as its fields, yields a pair
WellFormed(line) ==
    /\ Len(line) >= 2
    /\ _str_to_assignment(line[1]).ok
    /\ _str_to_assignment(line[2]).ok

PairOf(line) == <<_str_to_assignment(line[1]).val, _str_to_assignment(line[2]).val>>

\* the lines that have at least one character before their newline
RECURSIVE NonEmpty(_)
NonEmpty(lines) ==
    IF lines = <<>> THEN <<>>
    ELSE IF Head(lines) = <<<<>>>> THEN NonEmpty(Tail(lines))
    ELSE <<Head(lines)>> \o NonEmpty(Tail(lines))

\* C4 as stated: when every non-empty line starts with two range fields,
\* parse_section_assignments returns one pair for each non-empty line, in
\* line order, built from the line's first two fields; later fields neither
\* change the result nor raise.
C4_OnePairPerNonEmptyLine ==
    Returned("parse_section_assignments") =>
        LET lines == NonEmpty(call.lines)
        IN (\A i \in 1..Len(lines) : WellFormed(lines[i])) =>
              /\ ret.ok
              /\ ret.val = [i \in 1..Len(lines) |-> PairOf(lines[i])]

\* C4 amended: parse_section_assignments returns exactly when every line of
\* the input, empty ones included, starts with two range fields, and then
\* it returns one pair for each line, in line order, built from the line's
\* first two fields; later fields neither change the result nor raise.  An
\* empty line is not skipped: it makes the call raise.
C4_OnePairPerLine ==
    Returned("parse_section_assignments") =>
        LET lines == call.lines
        IN /\ ret.ok <=> \A i \in 1..Len(lines) : WellFormed(lines[i])
           /\ ret.ok => ret.val = [i \in 1..Len(lines) |-> PairOf(lines[i])]

\* C4 witness: two lines have been parsed to two different pairs, the first
\* line with a third field, the second pair of two different ranges
C4_Witness ==
    /\ Returned("parse_section_assignments")
    /\ ret.ok
    /\ Len(call.lines) = 2
    /\ Len(call.lines[1]) = 3
    /\ Len(ret.val) = 2
    /\ ret.val[1] # ret.val[2]
    /\ ret.val[2][1] # ret.val[2][2]

\* C5: for ranges materialised from bounds with start <= end, the set
\* predicates equal the bounds formulas: containment is (a within b) or
\* (b within a), overlap is a.start <= b.end and b.start <= a.end; equal
\* ranges contain each other.
C5_BoundsFormulas ==
    (pc = "return"
        /\ call.fn \in {"one_fully_contains_the_other", "one_overlaps_the_other"}) =>
        \A s1 \in 0..MaxSection, e1 \in 0..MaxSection,
           s2 \in 0..MaxSection, e2 \in 0..MaxSection :
            (/\ s1 <= e1
             /\ s2 <= e2
             /\ call.args[1] = rangeSet(s1, e1 + 1)
             /\ call.args[2] = rangeSet(s2, e2 + 1)) =>
                /\ call.fn = "one_fully_contains_the_other" =>
                      /\ ret.val = ((s1 >= s2 /\ e1 <= e2) \/ (s2 >= s1 /\ e2 <= e1))
                      /\ (s1 = s2 /\ e1 = e2) => ret.val
                /\ call.fn = "one_overlaps_the_other" =>
                      ret.val = (s1 <= e2 /\ s2 <= e1)

\* C5 witness: two equal ranges of more than one section have been found
\* to contain each other
C5_Witness ==
    /\ Returned("one_fully_contains_the_other")
    /\ call.args = <<1..2, 1..2>>
    /\ ret.val

\* C7: both predicates are symmetric: the result of a call on (a, b) is the
\* value of the predicate on (b, a).
C7_Symmetric ==
    /\ Returned("one_fully_contains_the_other") =>
          ret.val = one_fully_contains_the_other(call.args[2], call.args[1])
    /\ Returned("one_overlaps_the_other") =>
          ret.val = one_overlaps_the_other(call.args[2], call.args[1])

\* C7 witness: the second set is a proper subset of the first, which is no
\* range, and containment has been found
C7_Witness ==
    /\ Returned("one_fully_contains_the_other")
    /\ call.args = <<{0, 1, 3}, {3}>>
    /\ ret.val

\* the list without its i-th element
Without(xs, i) == SubSeq(xs, 1, i - 1) \o SubSeq(xs, i + 1, Len(xs))

HasEmptyRange(pair) == pair[1] = {} \/ pair[2] = {}

\* what C8 says of the two counts: a pair with an empty range adds one to
\* the count of full containments and nothing to the count of overlaps
EmptyRangeCounting ==
    /\ Returned("count_fully_overlapping_assignments") =>
          \A i \in 1..Len(call.args[1]) :
              HasEmptyRange(call.args[1][i]) =>
                  ret.val = count_fully_overlapping_assignments(Without(call.args[1], i)) + 1
    /\ Returned("count_overlapping_assignments") =>
          \A i \in 1..Len(call.args[1]) :
              HasEmptyRange(call.args[1][i]) =>
                  ret.val = count_overlapping_assignments(Without(call.args[1], i))

\* C8 as stated: every range string "s-e" with s > e parses without error
\* to the empty range; a pair with such a range is counted by
\* count_fully_overlapping_assignments and not by
\* count_overlapping_assignments.
C8_AnyInvertedRangeIsEmpty ==
    /\ Returned("_str_to_assignment") =>
          \A s \in Bounds, e \in Bounds :
              (s > e /\ call.args[1] = RangeStr(s, e)) => ret.ok /\ ret.val = {}
    /\ EmptyRangeCounting

\* C8 amended: every range string "s-e" with s > e >= 0 parses without
\* error to the empty range; a pair with such a range is counted by
\* count_fully_overlapping_assignments and not by
\* count_overlapping_assignments.  (With e negative the string has two
\* minus signs in a row and the parse raises.)
C8_InvertedRangeIsEmpty ==
    /\ Returned("_str_to_assignment") =>
          \A s \in Bounds, e \in Bounds :
              (s > e /\ e >= 0 /\ call.args[1] = RangeStr(s, e)) =>
                  ret.ok /\ ret.val = {}
    /\ EmptyRangeCounting

\* C8 witness: the inverted range string "10-2" has been parsed to the
\* empty range
C8_Witness ==
    /\ Returned("_str_to_assignment")
    /\ call.args[1] = <<"1", "0", "-", "2">>
    /\ ret.ok
    /\ ret.val = {}

\* every range of the parsed pairs has at least one section
AllRangesNonEmpty ==
    \A i \in 1..Len(parsed.val) : ~HasEmptyRange(parsed.val[i])

\* C9: when every parsed range is non-empty, every pair that
\* count_fully_overlapping_assignments counts is one that
\* count_overlapping_assignments counts, and the first answer day04 prints
\* is at most the second.
C9_FullWithinOverlap ==
    (prog = "day04" /\ pc = "done" /\ AllRangesNonEmpty) =>
        /\ \A i \in 1..Len(parsed.val) :
              one_fully_contains_the_other(parsed.val[i][1], parsed.val[i][2]) =>
                  one_overlaps_the_other(parsed.val[i][1], parsed.val[i][2])
        /\ Len(stdout) = 2
        /\ int(stdout[1]).val <= int(stdout[2]).val

\* C9 witness: day04 has printed 1 then 2 for two lines of non-empty ranges
C9_Witness ==
    /\ prog = "day04"
    /\ pc = "done"
    /\ AllRangesNonEmpty
    /\ Len(parsed.val) = 2
    /\ stdout = <<<<"1">>, <<"2">>>>

\* the answers of a program for its parsed input, as printed
FirstAnswer ==
    IF prog = "day01"
    THEN str(most_calories(parsed.val).val)
    ELSE str(count_fully_overlapping_assignments(parsed.val))

SecondAnswer ==
    IF prog = "day01"
    THEN str(sum_of_top_three_calories(parsed.val).val)
    ELSE str(count_overlapping_assignments(parsed.val))

\* C10: a run of either main that has ended has printed nothing, the parser
\* having raised, or both answers, the first before the second; no run has
\* ended with one line printed, since the second reducer cannot raise once
\* the first answer is out; the day01 parser never returns an empty list.
C10_NoneOrBothAnswers ==
    /\ pc \in {"parse", "first", "second", "done", "failed"}
    /\ pc = "failed" => stdout = <<>> /\ ~parsed.ok
    /\ pc = "second" => parsed.ok /\ stdout = <<FirstAnswer>>
    /\ (prog = "day01" /\ pc = "second") => sum_of_top_three_calories(parsed.val).ok
    /\ pc = "done" => parsed.ok /\ stdout = <<FirstAnswer, SecondAnswer>>
    /\ (prog = "day01" /\ parsed.ok) => parsed.val # <<>>

\* C10 witness: day01 has ended after printing two different answers for
\* two inventories
C10_Witness ==
    /\ prog = "day01"
    /\ pc = "done"
    /\ Len(parsed.val) = 2
    /\ Len(stdout) = 2
    /\ stdout[1] # stdout[2]

====
